---- MODULE Spec2Model ----
(***************************************************************************)
(* Model of runtime/bin/snapshot_utils.cc: the app-snapshot blob container *)
(* (WriteAppSnapshot / TryReadAppSnapshotBlobs), the dynamic-library and   *)
(* ELF strategies, the appended-trailer and Mach-O searches, and the       *)
(* resolver TryReadAppSnapshot.                                            *)
(*                                                                         *)
(* The state is the one file on disk the operations work on, the record of *)
(* the last WriteAppSnapshot call and the record of the last read-side     *)
(* call.  Every function of the source is an operator that computes the    *)
(* outcome of one whole call (return value, way of leaving, calls made to  *)
(* the collaborators, resources still held); every entry point is an       *)
(* action.  What the operating system and the collaborators decide (a      *)
(* failing open, read, write or map, dlopen, symbol lookup, the ELF        *)
(* loader) is an input of the action.                                      *)
(***************************************************************************)
EXTENDS Integers, Sequences, FiniteSets, TLC

VARIABLES file, written, result

vars == <<file, written, result>>

-----------------------------------------------------------------------------
(* Bounds *)

\* At most this many operating-system failures are injected into one call.
MaxFaults == 1

-----------------------------------------------------------------------------
(* Bytes and fixed-width integers *)

RECURSIVE Digits(_, _)
\* The k low-order base-256 digits of n, least significant first (two's
\* complement for a negative n: \div rounds down and % is non-negative).
Digits(n, k) ==
    IF k = 0 THEN <<>> ELSE <<n % 256>> \o Digits(n \div 256, k - 1)

RECURSIVE Unsigned(_)
\* The number whose base-256 digits, least significant first, are d.
Unsigned(d) ==
    IF Len(d) = 0 THEN 0 ELSE d[1] + 256 * Unsigned(Tail(d))

\* The value of a two's-complement integer given by its digits.
Signed(d) ==
    IF d[Len(d)] >= 128
        THEN 0 - (Unsigned([i \in 1..Len(d) |-> 255 - d[i]]) + 1)
        ELSE Unsigned(d)

\* Every host the program is built for is little-endian: an integer of n bytes
\* lies in memory least significant byte first.
HostStore(value, n) == Digits(value, n)

\* The digits (least significant first) of the integer the host reads from
\* bytes of its memory.
HostLoad(bytes) == bytes

\* Utils::LittleEndianToHost64, on a value given by its digits: no byte is
\* moved on a little-endian host.
LittleEndianToHost64(digits) == digits

RoundUp(x, n) == ((x + n - 1) \div n) * n

-----------------------------------------------------------------------------
(* Program constants *)

kInt64Size == 8
kAppSnapshotHeaderSize == 5 * kInt64Size
kAppSnapshotPageSize == 16 * 1024

\* appjit_magic_number.bytes (bin/dartutils.cc): 0xdc 0xdc 0xf6 0xf6 0 0 0 0
appjit_magic_number == <<220, 220, 246, 246, 0, 0, 0, 0>>

-----------------------------------------------------------------------------
(* Files: a length, explicit byte runs, and extents holding a section       *)
(* buffer (bulk contents, every byte of buffer id being Fill(id)).  A byte  *)
(* that lies in no run and no extent is a hole and reads as 0.              *)

Fill(id) == 160 + id

NoFile == [type |-> "none", len |-> 0, runs |-> {}, extents |-> {}]

InRun(r, off) == off >= r.off /\ off < r.off + Len(r.bytes)
InExtent(e, off) == off >= e.off /\ off < e.off + e.len

ByteAt(f, off) ==
    IF \E r \in f.runs : InRun(r, off)
        THEN LET r == CHOOSE r \in f.runs : InRun(r, off)
             IN r.bytes[off - r.off + 1]
    ELSE IF \E e \in f.extents : InExtent(e, off)
        THEN Fill((CHOOSE e \in f.extents : InExtent(e, off)).id)
    ELSE 0

ReadBytes(f, pos, n) == [i \in 1..n |-> ByteAt(f, pos + i - 1)]

-----------------------------------------------------------------------------
(* Snapshot::WriteAppSnapshot *)

\* The places where the operating system can fail a call of the writer.
WriterSites ==
    {"open", "magic", "size1", "size2", "size3", "size4",
     "sec1", "sec2", "sec3", "sec4"}

\* The state of the writer: the file being written, the file position, the
\* result of the last WriteFully, the offset at which each section buffer
\* was put (-1: not written), the writes that failed, and whether the
\* function is still running or how it was left.  Once the function is left
\* no further call is made.
WriterStart ==
    [f |-> [type |-> "file", len |-> 0, runs |-> {}, extents |-> {}],
     pos |-> 0, ok |-> TRUE, placed |-> <<-1, -1, -1, -1>>, failed |-> {},
     exit |-> "running"]

Max(a, b) == IF a >= b THEN a ELSE b

\* File::WriteFully of explicit bytes at the file position.  A failing write
\* writes nothing, leaves the position where it was and returns false.
WriteFully(st, bytes, site, faults) ==
    IF st.exit # "running" THEN st
    ELSE IF site \in faults
        THEN [st EXCEPT !.ok = FALSE, !.failed = @ \cup {site}]
    ELSE [st EXCEPT
            !.f.runs = @ \cup {[off |-> st.pos, bytes |-> bytes]},
            !.f.len = Max(@, st.pos + Len(bytes)),
            !.pos = @ + Len(bytes),
            !.ok = TRUE]

\* WriteInt64: the 8 bytes of the value as they lie in memory.  The result of
\* WriteFully is dropped.
WriteInt64(st, size, site, faults) ==
    WriteFully(st, HostStore(size, kInt64Size), site, faults)

\* File::WriteFully of section buffer id, size bytes long.  Nothing is written
\* for a size of 0, and the call succeeds.
WriteBuffer(st, id, size, site, faults) ==
    IF st.exit # "running" THEN st
    ELSE IF size = 0 THEN [st EXCEPT !.ok = TRUE]
    ELSE IF site \in faults
        THEN [st EXCEPT !.ok = FALSE, !.failed = @ \cup {site}]
    ELSE [st EXCEPT
            !.f.extents = @ \cup {[off |-> st.pos, len |-> size, id |-> id]},
            !.f.len = Max(@, st.pos + size),
            !.pos = @ + size,
            !.ok = TRUE,
            !.placed[id] = st.pos]

\* A writer that leaves the file position where it is.
KeepPosition(st) == st

\* file->SetPosition(Utils::RoundUp(file->Position(), kAppSnapshotPageSize))
AlignPosition(st) ==
    IF st.exit # "running" THEN st
    ELSE [st EXCEPT !.pos = RoundUp(@, kAppSnapshotPageSize)]

\* if (!file->WriteFully(...)) ErrorExit(...)
OrErrorExit(st) ==
    IF st.exit = "running" /\ ~st.ok THEN [st EXCEPT !.exit = "error_exit"]
    ELSE st

\* ASSERT(file->Position() == kAppSnapshotHeaderSize), compiled in debug
\* builds only.
AssertHeaderPosition(st, debug) ==
    IF debug /\ st.pos # kAppSnapshotHeaderSize
        THEN [st EXCEPT !.exit = "assert"]
        ELSE st

\* The block of a data section: align, write, check.
WriteDataSection(st, id, size, site, faults) ==
    OrErrorExit(WriteBuffer(AlignPosition(st), id, size, site, faults))

\* The block of an instructions section, entered when its size is not 0.
WriteInstructionsSection(st, id, size, site, faults) ==
    IF size # 0
        THEN OrErrorExit(WriteBuffer(AlignPosition(st), id, size, site,
                                     faults))
        ELSE st

\* How the function was left and what it left behind.
WriterLeaves(st) ==
    [exit |-> IF st.exit = "running" THEN "return" ELSE st.exit,
     f |-> st.f, placed |-> st.placed, failed |-> st.failed]

\* One call of WriteAppSnapshot with section sizes `sizes`, in a build with
\* or without assertions (debug); the writes named in faults fail.  old is the
\* file as it was.  The result names the writes that did fail.
WriteAppSnapshotCall(old, sizes, faults, debug) ==
    IF "open" \in faults
        THEN [exit |-> "error_exit", f |-> old, placed |-> <<-1, -1, -1, -1>>,
              failed |-> {"open"}]
    ELSE
    LET h0 == WriteFully(WriterStart, appjit_magic_number, "magic", faults)
        h1 == WriteInt64(h0, sizes[1], "size1", faults)
        h2 == WriteInt64(h1, sizes[2], "size2", faults)
        h3 == WriteInt64(h2, sizes[3], "size3", faults)
        h4 == WriteInt64(h3, sizes[4], "size4", faults)
        h5 == AssertHeaderPosition(h4, debug)
        b1 == WriteDataSection(h5, 1, sizes[1], "sec1", faults)
        b2 == WriteInstructionsSection(b1, 2, sizes[2], "sec2", faults)
        b3 == WriteDataSection(b2, 3, sizes[3], "sec3", faults)
        b4 == WriteInstructionsSection(b3, 4, sizes[4], "sec4", faults)
    IN  WriterLeaves(b4)

-----------------------------------------------------------------------------
(* Outcomes of the read-side calls *)

\* A null MappedMemory*.
NoMap == [off |-> -1, len |-> 0, prot |-> "none"]

\* A null AppSnapshot*.
NullHandle ==
    [kind |-> "null", maps |-> <<NoMap, NoMap, NoMap, NoMap>>,
     ptrs |-> <<0, 0, 0, 0>>]

\* new MappedAppSnapshot(...): the handle owns the four mappings.
MappedAppSnapshot(maps) ==
    [kind |-> "mapped", maps |-> maps, ptrs |-> <<0, 0, 0, 0>>]

\* new ElfAppSnapshot(handle, ...): the four pointers the loader returned.
ElfAppSnapshot(ptrs) ==
    [kind |-> "elf", maps |-> <<NoMap, NoMap, NoMap, NoMap>>, ptrs |-> ptrs]

\* new DylibAppSnapshot(library, ...): the four resolved symbol addresses.
DylibAppSnapshot(ptrs) ==
    [kind |-> "dylib", maps |-> <<NoMap, NoMap, NoMap, NoMap>>, ptrs |-> ptrs]

\* A null const uint8_t*.
NullBuffer == [base |-> "null", off |-> 0]

\* A value the caller's variable held before the call.
CallersBuffer == [base |-> "caller", off |-> 0]

\* MappedMemory::address() of the mapping m: an address that is not null and
\* that belongs to this mapping only.
address(m) == [base |-> "mapping", off |-> m.off]

\* A SetBuffers that also clears the pointers of the sections it has no
\* mapping for.
SetBuffersClearing(handle, buffers) ==
    [k \in 1..4 |-> IF handle.maps[k] # NoMap THEN address(handle.maps[k])
                    ELSE NullBuffer]

\* MappedAppSnapshot::SetBuffers: buffers holds what the four variables the
\* arguments point to hold before the call, the value is what they hold
\* after it.
SetBuffers(handle, buffers) ==
    [k \in 1..4 |-> IF handle.maps[k] # NoMap THEN address(handle.maps[k])
                    ELSE buffers[k]]

\* What one call did: the value returned (ret), how the call was left (exit:
\* "return", or "fatal" for FATAL1, after which nothing is returned), the
\* strategies the resolver attempted, the File::Map calls of the blob reader,
\* the calls of the ELF loader, the diagnostics printed, the structures read
\* by the Mach-O walk, the section sizes and positions the blob reader
\* computed, the resources taken and given back (files opened and released,
\* mappings not owned by a handle created and deleted), and the failures of
\* the operating system the call met (hit).
Blank ==
    [ret |-> NullHandle, exit |-> "return", strategies |-> <<>>,
     maps |-> <<>>, loads |-> <<>>, diags |-> <<>>, walk |-> <<>>,
     sizes |-> <<>>, positions |-> <<>>,
     opened |-> 0, released |-> 0, mapped |-> 0, unmapped |-> 0,
     hit |-> {}]

\* The outcome of a caller that did `a` and then made a call whose outcome is
\* b, and leaves with b's result.
Then(a, b) ==
    [ret |-> b.ret, exit |-> b.exit,
     strategies |-> a.strategies \o b.strategies,
     maps |-> a.maps \o b.maps, loads |-> a.loads \o b.loads,
     diags |-> a.diags \o b.diags, walk |-> a.walk \o b.walk,
     sizes |-> IF b.sizes = <<>> THEN a.sizes ELSE b.sizes,
     positions |-> IF b.positions = <<>> THEN a.positions ELSE b.positions,
     opened |-> a.opened + b.opened, released |-> a.released + b.released,
     mapped |-> a.mapped + b.mapped, unmapped |-> a.unmapped + b.unmapped,
     hit |-> a.hit \cup b.hit]

\* File::Open(.., kRead): fails on a path that names no file, and when the
\* operating system refuses (site in faults).
CanOpen(f, site, faults) == f.type # "none" /\ site \notin faults

\* File::Map(type, position, length): the operating system maps no empty or
\* negative range, and may refuse any other (site in faults).
CanMap(length, site, faults) == length > 0 /\ site \notin faults

\* The outcome of a call that returns null because the operating system
\* failed it at site.
Failed(site) == [Blank EXCEPT !.hit = {site}]

\* Null after File::Open failed.
OpenFailed(f, site) == IF f.type = "none" THEN Blank ELSE Failed(site)

\* The function is left through a RefCntReleaseScope<File>: the file is
\* released when the function returns.
ScopedFile(r) ==
    [r EXCEPT !.opened = @ + 1,
              !.released = @ + (IF r.exit = "return" THEN 1 ELSE 0)]

-----------------------------------------------------------------------------
(* TryReadAppSnapshotBlobs *)

\* A reader that takes the sections to lie one after the other, unaligned.
SectionPositionsPacked(sizes, position) ==
    <<position, position + sizes[1], position + sizes[1] + sizes[2],
      position + sizes[1] + sizes[2] + sizes[3]>>

\* The four section positions computed from the four sizes and the file
\* position after the header was read.
SectionPositions(sizes, position) ==
    LET vm_data_position == RoundUp(position, kAppSnapshotPageSize)
        vm_instructions_position ==
            IF sizes[2] # 0
                THEN RoundUp(vm_data_position + sizes[1], kAppSnapshotPageSize)
                ELSE vm_data_position + sizes[1]
        isolate_data_position ==
            RoundUp(vm_instructions_position + sizes[2], kAppSnapshotPageSize)
        isolate_instructions_position ==
            IF sizes[4] # 0
                THEN RoundUp(isolate_data_position + sizes[3],
                             kAppSnapshotPageSize)
                ELSE isolate_data_position + sizes[3]
    IN  <<vm_data_position, vm_instructions_position,
          isolate_data_position, isolate_instructions_position>>

\* The name of the failure of the File::Map of section k.
MapSite(k) == <<"map1", "map2", "map3", "map4">>[k]

\* File::kReadOnly for the data sections, File::kReadExecute for the
\* instructions sections.
MapType(k) == IF k \in {1, 3} THEN "kReadOnly" ELSE "kReadExecute"

RECURSIVE MapSections(_, _, _, _, _)
\* The four blocks that map a section of non-zero size, from section k on.
\* acc holds the mappings made, the log of the File::Map calls, whether
\* FATAL1 was reached and the failure that led there.
MapSections(k, sizes, positions, faults, acc) ==
    IF k > 4 THEN acc
    ELSE IF sizes[k] = 0
        THEN MapSections(k + 1, sizes, positions, faults, acc)
    ELSE LET ok == CanMap(sizes[k], MapSite(k), faults)
             call == [sec |-> k, off |-> positions[k], len |-> sizes[k],
                      ok |-> ok]
             m == [off |-> positions[k], len |-> sizes[k],
                   prot |-> MapType(k)]
         IN  IF ok
                 THEN MapSections(k + 1, sizes, positions, faults,
                         [acc EXCEPT !.got[k] = m,
                                     !.log = Append(@, call)])
                 ELSE [acc EXCEPT !.log = Append(@, call), !.fatal = TRUE,
                                  !.hit = IF sizes[k] > 0 THEN {MapSite(k)}
                                          ELSE {}]

\* Word i (0..4) of the 40-byte header.
HeaderWord(header, i) ==
    SubSeq(header, kInt64Size * i + 1, kInt64Size * (i + 1))

\* A reader that returns null when a section cannot be mapped.
AfterMapSectionsSoft(sizes, positions, m) ==
    [Blank EXCEPT
        !.ret = IF m.fatal THEN NullHandle ELSE MappedAppSnapshot(m.got),
        !.maps = m.log, !.sizes = sizes, !.positions = positions,
        !.hit = m.hit]

\* What the reader leaves with once the sections were gone through: the
\* handle that owns the mappings, or FATAL1.
AfterMapSections(sizes, positions, m) ==
    [Blank EXCEPT
        !.ret = IF m.fatal THEN NullHandle ELSE MappedAppSnapshot(m.got),
        !.exit = IF m.fatal THEN "fatal" ELSE "return",
        !.maps = m.log, !.sizes = sizes, !.positions = positions,
        !.hit = m.hit]

\* The reader from the computed positions on.
MapAtPositions(sizes, positions, faults) ==
    AfterMapSections(sizes, positions,
        MapSections(1, sizes, positions, faults,
            [got |-> <<NoMap, NoMap, NoMap, NoMap>>, log |-> <<>>,
             fatal |-> FALSE, hit |-> {}]))

\* The reader from the four sizes on; position is the file position after
\* the header was read.
MapWithSizes(sizes, position, faults) ==
    MapAtPositions(sizes, SectionPositions(sizes, position), faults)

\* The reader once the header was read.
AfterHeader(header, position, faults) ==
    IF HeaderWord(header, 0) # appjit_magic_number THEN Blank
    ELSE MapWithSizes([k \in 1..4 |-> Signed(HostLoad(HeaderWord(header, k)))],
                      position, faults)

\* TryReadAppSnapshotBlobs(script_name, file) on the open file f at the given
\* file position.  faults: "blobs_read" fails ReadFully, MapSite(k) fails the
\* File::Map of section k.
TryReadAppSnapshotBlobsFile(f, position, faults) ==
    IF f.len - position < kAppSnapshotHeaderSize THEN Blank
    ELSE IF "blobs_read" \in faults THEN Failed("blobs_read")
    ELSE AfterHeader(ReadBytes(f, position, kAppSnapshotHeaderSize),
                     position + kAppSnapshotHeaderSize, faults)

\* TryReadAppSnapshotBlobs(script_name): opens the file, reads it from
\* position 0 and releases it.  "blobs_open" in faults fails File::Open.
TryReadAppSnapshotBlobs(f, faults) ==
    IF ~CanOpen(f, "blobs_open", faults) THEN OpenFailed(f, "blobs_open")
    ELSE ScopedFile(TryReadAppSnapshotBlobsFile(f, 0, faults))

-----------------------------------------------------------------------------
(* The ELF loader (bin/elf_loader.h), a collaborator: whether it accepts   *)
(* what it is given is an input, elf.ok; on success it returns the four     *)
(* pointers elf.ptrs.                                                       *)

\* One call of Dart_LoadELF (mode "path": path and file offset) or of
\* Dart_LoadELF_Memory (mode "memory": a buffer that starts at byte `offset`
\* of the region `from`, which is `room` bytes long, with the length given).
\* offset is an unsigned 64-bit value given by its digits.
LoadCall(mode, from, offset, length, room) ==
    [mode |-> mode, from |-> from, offset |-> offset, length |-> length,
     room |-> room]

\* The value of the function that made the loader call `call`: the handle
\* built from the loader's answer, or null after the diagnostic.
AfterLoad(call, elf) ==
    IF elf.ok
        THEN [Blank EXCEPT !.ret = ElfAppSnapshot(elf.ptrs),
                           !.loads = <<call>>]
        ELSE [Blank EXCEPT !.loads = <<call>>,
                           !.diags = <<"Loading failed">>]

\* TryReadAppSnapshotElf(script_name, file_offset, force_load_elf_from_memory)
\* on file f.  The file is mapped and handed over as memory on Fuchsia and
\* when forced; otherwise the loader is given the path.  faults: "elf_open"
\* fails File::Open, "elf_map" fails File::Map.
TryReadAppSnapshotElf(f, file_offset, force, build, faults, elf) ==
    IF build.fuchsia \/ force
        THEN IF ~CanOpen(f, "elf_open", faults)
                 THEN OpenFailed(f, "elf_open")
             ELSE IF ~CanMap(f.len, "elf_map", faults)
                 THEN [Blank EXCEPT
                          !.opened = 1,
                          !.hit = IF f.len > 0 THEN {"elf_map"} ELSE {}]
             ELSE LET call == LoadCall("memory", "map", file_offset, f.len,
                                       f.len)
                  IN  [AfterLoad(call, elf) EXCEPT
                          !.opened = 1, !.released = 1,
                          !.mapped = 1, !.unmapped = 1]
        ELSE AfterLoad(LoadCall("path", "file", file_offset, 0, f.len), elf)

-----------------------------------------------------------------------------
(* TryReadAppSnapshotDynamicLibrary *)

\* A strategy that takes every one of the four symbols to be required.
TryReadAppSnapshotDynamicLibraryStrict(dl) ==
    IF ~dl.open THEN Blank
    ELSE IF \E k \in 1..4 : dl.symbols[k] = 0
        THEN [Blank EXCEPT !.exit = "fatal",
                           !.diags = <<"Failed to resolve symbol">>]
    ELSE [Blank EXCEPT !.ret = DylibAppSnapshot(dl.symbols)]

\* dl.open: whether Utils::LoadDynamicLibrary returns a library; dl.symbols:
\* what Utils::ResolveSymbolInDynamicLibrary returns for kVmSnapshotDataCSymbol,
\* kVmSnapshotInstructionsCSymbol, kIsolateSnapshotDataCSymbol and
\* kIsolateSnapshotInstructionsCSymbol (0: null).
TryReadAppSnapshotDynamicLibrary(dl) ==
    IF ~dl.open THEN Blank
    ELSE
    LET vm_data_buffer == dl.symbols[1]
        vm_instructions_buffer == dl.symbols[2]
        isolate_data_buffer == dl.symbols[3]
        isolate_instructions_buffer == dl.symbols[4]
    IN  IF isolate_data_buffer = 0
            THEN [Blank EXCEPT !.exit = "fatal",
                    !.diags = <<"Failed to resolve symbol isolate data">>]
        ELSE IF isolate_instructions_buffer = 0
            THEN [Blank EXCEPT !.exit = "fatal",
                    !.diags =
                        <<"Failed to resolve symbol isolate instructions">>]
        ELSE [Blank EXCEPT !.ret =
                DylibAppSnapshot(<<vm_data_buffer, vm_instructions_buffer,
                                   isolate_data_buffer,
                                   isolate_instructions_buffer>>)]

-----------------------------------------------------------------------------
(* Mach-O (platform/mach_o.h): magic numbers by their digits, least        *)
(* significant first, load-command kinds and structure sizes.               *)

MH_MAGIC == <<206, 250, 237, 254>>
MH_CIGAM == <<254, 237, 250, 206>>
MH_MAGIC_64 == <<207, 250, 237, 254>>
MH_CIGAM_64 == <<254, 237, 250, 207>>

LC_SEGMENT == 1
LC_SEGMENT_64 == 25

SizeofMachHeader64 == 32
SizeofLoadCommand == 8
SizeofSegmentCommand64 == 72
SizeofSection64 == 80

\* "__CUSTOM" and "__dart_app_snap" as character codes.
kMachOAppSnapshotSegmentName == <<95, 95, 67, 85, 83, 84, 79, 77>>
kMachOAppSnapshotSectionName ==
    <<95, 95, 100, 97, 114, 116, 95, 97, 112, 112, 95, 115, 110, 97, 112>>

\* How many structures (load commands, segment commands, sections) one walk
\* of the model reads before it is cut off.
MaxWalk == 12

\* File::Read of n bytes at pos into a structure: bytes past the end of the
\* file are not read, and the structure keeps there what it held (junk).
ReadStruct(f, pos, n, junk) ==
    [i \in 1..n |-> IF pos + i - 1 < f.len THEN ByteAt(f, pos + i - 1)
                    ELSE junk]

\* The unsigned integer of n bytes at byte offset off of a structure.
Field(struct, off, n) == Unsigned(HostLoad(SubSeq(struct, off + 1, off + n)))

\* strcmp(field, name) == 0 for the char array at offset off of a structure:
\* the characters of name, then the terminating 0.
StrEq(struct, off, name) ==
    /\ SubSeq(struct, off + 1, off + Len(name)) = name
    /\ struct[off + Len(name) + 1] = 0

\* Snapshot::IsMachOFormattedBinary, its value: the file opens, holds at
\* least 4 bytes and starts with one of the four magic numbers.
IsMachOFormattedBinary(f, site, faults) ==
    /\ CanOpen(f, site, faults)
    /\ f.len >= 4
    /\ HostLoad(ReadBytes(f, 0, 4)) \in
           {MH_MAGIC_64, MH_CIGAM_64, MH_MAGIC, MH_CIGAM}

\* Snapshot::IsMachOFormattedBinary, its resources: the file it opened is
\* released on every return.
IsMachOFormattedBinaryCall(f, site, faults) ==
    IF CanOpen(f, site, faults)
        THEN [Blank EXCEPT !.opened = 1, !.released = 1]
        ELSE OpenFailed(f, site)

\* A walk that takes every command that is no segment to be as long as
\* struct load_command.
SkipCommandHeader(pos, cmdsize) == pos + SizeofLoadCommand

\* file->SetPosition(file->Position() + command.cmdsize), the position
\* being that of the command: where the walk goes on after a command that
\* is no segment.
SkipCommand(pos, cmdsize) == pos + cmdsize

\* A match that looks at the two names only.
HasSnapshotNames(segcmd, section) ==
    /\ StrEq(section, 16, kMachOAppSnapshotSegmentName)
    /\ StrEq(section, 0, kMachOAppSnapshotSectionName)

\* The condition under which a section read in a segment command of kind
\* segcmd is taken for the snapshot.
IsSnapshotSection(segcmd, section) ==
    /\ segcmd = LC_SEGMENT_64
    /\ StrEq(section, 16, kMachOAppSnapshotSegmentName)
    /\ StrEq(section, 0, kMachOAppSnapshotSectionName)

RECURSIVE WalkCommands(_, _, _, _, _, _, _)
RECURSIVE WalkSections(_, _, _, _, _, _, _, _, _, _)

\* The loop over the load commands, from command i at file position pos.
\* The result tells whether the loop ended (done), whether it ended at a
\* section with the reserved names (found, with its offset and size), and
\* the structures read.
WalkCommands(f, i, ncmds, pos, junk, log, fuel) ==
    IF i >= ncmds
        THEN [done |-> TRUE, found |-> FALSE, offset |-> 0, size |-> 0,
              log |-> log]
    ELSE IF fuel = 0
        THEN [done |-> FALSE, found |-> FALSE, offset |-> 0, size |-> 0,
              log |-> log]
    ELSE
    LET command == ReadStruct(f, pos, SizeofLoadCommand, junk)
        cmd == Field(command, 0, 4)
        cmdsize == Field(command, 4, 4)
        seen == Append(log, [what |-> "load_command", i |-> i, pos |-> pos])
    IN  IF cmd # LC_SEGMENT /\ cmd # LC_SEGMENT_64
            THEN WalkCommands(f, i + 1, ncmds, SkipCommand(pos, cmdsize),
                              junk, seen, fuel - 1)
            ELSE LET segment ==
                         ReadStruct(f, pos, SizeofSegmentCommand64, junk)
                 IN  WalkSections(f, i, ncmds, Field(segment, 0, 4), 0,
                         Field(segment, 64, 4), pos + SizeofSegmentCommand64,
                         junk, seen, fuel - 1)

\* The loop over the sections of segment command i, from section j at file
\* position pos.
WalkSections(f, i, ncmds, segcmd, j, nsects, pos, junk, log, fuel) ==
    IF j >= nsects
        THEN WalkCommands(f, i + 1, ncmds, pos, junk, log, fuel)
    ELSE IF fuel = 0
        THEN [done |-> FALSE, found |-> FALSE, offset |-> 0, size |-> 0,
              log |-> log]
    ELSE
    LET section == ReadStruct(f, pos, SizeofSection64, junk)
        seen == Append(log, [what |-> "section", i |-> i, pos |-> pos])
    IN  IF IsSnapshotSection(segcmd, section)
            THEN [done |-> TRUE, found |-> TRUE,
                  offset |-> Field(section, 48, 4),
                  size |-> Field(section, 40, 8), log |-> seen]
            ELSE WalkSections(f, i, ncmds, segcmd, j + 1, nsects,
                              pos + SizeofSection64, junk, seen, fuel - 1)

\* The Mach-O search after the walk w: the loop was cut off, ended without a
\* match, or ended at the section, whose bytes are then read into a buffer
\* that is given to the loader and freed.
AfterWalk(w, checked, elf) ==
    IF ~w.done
        THEN Then(checked, [Blank EXCEPT !.exit = "walking", !.walk = w.log])
    ELSE IF ~w.found
        THEN Then(checked, [Blank EXCEPT !.walk = w.log])
    ELSE Then([checked EXCEPT !.walk = w.log],
              AfterLoad(LoadCall("memory", "copy",
                                 Digits(w.offset, kInt64Size),
                                 w.size, w.size), elf))

\* The walk from the mach_header_64 read at the start of the file.
WalkFrom(f, header, junk) ==
    WalkCommands(f, 0, Field(header, 16, 4), SizeofMachHeader64, junk, <<>>,
                 MaxWalk)

\* A search that walks the load commands whatever the magic number is.
AfterMagicWalks(f, magic, checked, elf, junk) ==
    AfterWalk(WalkFrom(f, ReadStruct(f, 0, SizeofMachHeader64, junk), junk),
              checked, elf)

\* The Mach-O search on a file IsMachOFormattedBinary accepted, whose magic
\* number was read again.
AfterMagic(f, magic, checked, elf, junk) ==
    IF magic = MH_CIGAM \/ magic = MH_CIGAM_64
        THEN Then(checked, [Blank EXCEPT !.diags = <<"byte-swapped header">>])
    ELSE IF ~(magic = MH_MAGIC_64 \/ magic = MH_CIGAM_64)
        THEN Then(checked, [Blank EXCEPT !.diags = <<"32bit architecture">>])
    ELSE AfterWalk(WalkFrom(f, ReadStruct(f, 0, SizeofMachHeader64, junk),
                            junk),
                   checked, elf)

\* Snapshot::TryReadAppendedAppSnapshotElfFromMachO(container_path) on file
\* f.  faults: "macho_open" fails File::Open, "ismacho2_open" the File::Open
\* of IsMachOFormattedBinary.
TryReadAppendedAppSnapshotElfFromMachO(f, faults, elf, junk) ==
    IF ~CanOpen(f, "macho_open", faults) THEN OpenFailed(f, "macho_open")
    ELSE ScopedFile(
    IF ~IsMachOFormattedBinary(f, "ismacho2_open", faults)
        THEN Then(IsMachOFormattedBinaryCall(f, "ismacho2_open", faults),
                  [Blank EXCEPT !.diags = <<"expected Mach-O binary">>])
        ELSE AfterMagic(f, HostLoad(ReadStruct(f, 0, 4, junk)),
                        IsMachOFormattedBinaryCall(f, "ismacho2_open", faults),
                        elf, junk))

-----------------------------------------------------------------------------
(* Snapshot::TryReadAppendedAppSnapshotElf *)

\* A comparison that finds no offset to be <= 0.
NeverLessOrEqualZero(digits) == FALSE

\* x <= 0 for an unsigned 64-bit x given by its digits.
UnsignedLessOrEqualZero(digits) == \A i \in 1..Len(digits) : digits[i] = 0

\* The appended-trailer search proper: the file is opened, its last 16 bytes
\* are read as int64_t appended_header[2], and the loader is given the path
\* and the offset when the second word is the magic number and the offset
\* is not <= 0.  faults: "trailer_open" fails File::Open, "trailer_read"
\* fails ReadFully.
ReadAppendedHeader(f, build, faults, elf) ==
    IF ~CanOpen(f, "trailer_open", faults)
        THEN OpenFailed(f, "trailer_open")
    ELSE ScopedFile(
    IF f.len - 2 * kInt64Size < 0 THEN Blank
    ELSE IF "trailer_read" \in faults THEN Failed("trailer_read")
    ELSE
    LET appended_header == ReadBytes(f, f.len - 2 * kInt64Size, 2 * kInt64Size)
        appended_offset ==
            LittleEndianToHost64(HostLoad(SubSeq(appended_header, 1, kInt64Size)))
    IN  IF \/ SubSeq(appended_header, kInt64Size + 1, 2 * kInt64Size)
                 # appjit_magic_number
           \/ UnsignedLessOrEqualZero(appended_offset)
            THEN Blank
            ELSE TryReadAppSnapshotElf(f, appended_offset, FALSE, build,
                                       faults, elf))

\* Snapshot::TryReadAppendedAppSnapshotElf(container_path) on file f: on
\* macOS a Mach-O formatted file goes to the Mach-O search.  "ismacho_open"
\* in faults fails the File::Open of IsMachOFormattedBinary.
TryReadAppendedAppSnapshotElf(f, build, faults, elf, junk) ==
    IF build.macos
        THEN Then(IsMachOFormattedBinaryCall(f, "ismacho_open", faults),
                  IF IsMachOFormattedBinary(f, "ismacho_open", faults)
                      THEN TryReadAppendedAppSnapshotElfFromMachO(
                               f, faults, elf, junk)
                      ELSE ReadAppendedHeader(f, build, faults, elf))
        ELSE ReadAppendedHeader(f, build, faults, elf)

-----------------------------------------------------------------------------
(* Snapshot::TryReadAppSnapshot *)

Attempt(name, r) == [r EXCEPT !.strategies = <<name>>]

\* A strategy's outcome ends the resolver when it returned a handle, or did
\* not return at all.
Decides(r) == r.ret # NullHandle \/ r.exit # "return"

\* A resolver whose last step is the search of
\* TryReadAppendedAppSnapshotElf.
AppendedStep(sofar, f, force, build, faults, elf) ==
    Then(sofar, Attempt("elf",
            TryReadAppendedAppSnapshotElf(f, build, faults, elf, 0)))

\* The last step of the resolver, after the strategies of `sofar` yielded
\* nothing: TryReadAppSnapshotElf at file offset 0.
ElfStep(sofar, f, force, build, faults, elf) ==
    Then(sofar, Attempt("elf",
            TryReadAppSnapshotElf(f, Digits(0, kInt64Size), force, build,
                                  faults, elf)))

\* A resolver that goes on to the last step whatever the dynamic-library
\* strategy returned.
AfterDylibGoesOn(dylib, f, force, build, faults, elf) ==
    ElfStep(dylib, f, force, build, faults, elf)

\* The resolver after the dynamic-library strategy was tried.
AfterDylib(dylib, f, force, build, faults, elf) ==
    IF Decides(dylib) THEN dylib
    ELSE ElfStep(dylib, f, force, build, faults, elf)

\* The resolver after the blob reader was tried.  The two further
\* strategies exist in the precompiled runtime only; the dynamic library is
\* tried unless force_load_elf_from_memory.
AfterBlobs(blobs, f, force, build, faults, dl, elf) ==
    IF Decides(blobs) THEN blobs
    ELSE IF ~build.precompiled THEN blobs
    ELSE IF ~force
        THEN AfterDylib(Then(blobs, Attempt("dylib",
                                 TryReadAppSnapshotDynamicLibrary(dl))),
                        f, force, build, faults, elf)
    ELSE ElfStep(blobs, f, force, build, faults, elf)

\* TryReadAppSnapshot(script_uri, force_load_elf_from_memory, decode_uri) on
\* file f.  uri tells how the path is given: "path" (decode_uri false), "uri"
\* (a URI that File::UriToPath decodes) or "bad_uri" (one it does not).
TryReadAppSnapshot(f, uri, force, build, faults, dl, elf) ==
    IF uri = "bad_uri" THEN Blank
    ELSE IF f.type # "file" THEN Blank
    ELSE AfterBlobs(Attempt("blobs", TryReadAppSnapshotBlobs(f, faults)),
                    f, force, build, faults, dl, elf)

-----------------------------------------------------------------------------
(* The files the operations are tried on *)

Zeros(n) == [i \in 1..n |-> 0]

Pad(bytes, n) == bytes \o Zeros(n - Len(bytes))

RECURSIVE Concat(_)
Concat(seqs) == IF Len(seqs) = 0 THEN <<>> ELSE Head(seqs) \o Concat(Tail(seqs))

\* A regular file of len bytes whose first bytes are lead, the rest a hole.
PlainFile(lead, len) ==
    [type |-> "file", len |-> len,
     runs |-> IF Len(lead) = 0 THEN {} ELSE {[off |-> 0, bytes |-> lead]},
     extents |-> {}]

\* f with the 16 bytes of a trailer (offset word, magic word) appended.
WithTrailer(f, offsetWord, magicWord) ==
    [f EXCEPT !.runs = @ \cup {[off |-> f.len, bytes |-> offsetWord \o magicWord]},
              !.len = @ + 2 * kInt64Size]

\* The file WriteAppSnapshot leaves for these section sizes when every write
\* succeeds.
BlobFile(sizes) == WriteAppSnapshotCall(NoFile, sizes, {}, FALSE).f

\* A blob container header written by hand: the magic number and four sizes.
HeaderFile(sizes, len) ==
    PlainFile(appjit_magic_number \o HostStore(sizes[1], kInt64Size)
                \o HostStore(sizes[2], kInt64Size)
                \o HostStore(sizes[3], kInt64Size)
                \o HostStore(sizes[4], kInt64Size), len)

\* struct mach_header_64: magic, cputype, cpusubtype, filetype, ncmds,
\* sizeofcmds, flags, reserved.
MachHeader64(magic, ncmds, sizeofcmds) ==
    magic \o Zeros(12) \o Digits(ncmds, 4) \o Digits(sizeofcmds, 4) \o Zeros(8)

\* A load command that is no segment: cmd, cmdsize and its payload.
LoadCommand(cmd, cmdsize) ==
    Digits(cmd, 4) \o Digits(cmdsize, 4) \o Zeros(cmdsize - SizeofLoadCommand)

\* struct section_64: sectname, segname, addr, size, offset, and 28 bytes of
\* align, reloff, nreloc, flags and reserved words.
Section64(sectname, segname, size, offset) ==
    Pad(sectname, 16) \o Pad(segname, 16) \o Zeros(8) \o Digits(size, 8)
        \o Digits(offset, 4) \o Zeros(28)

\* struct segment_command_64 followed by its sections: cmd, cmdsize, segname,
\* vmaddr, vmsize, fileoff, filesize, maxprot, initprot, nsects, flags.
SegmentCommand64(cmd, segname, sections) ==
    Digits(cmd, 4)
        \o Digits(SizeofSegmentCommand64 + SizeofSection64 * Len(sections), 4)
        \o Pad(segname, 16) \o Zeros(40) \o Digits(Len(sections), 4)
        \o Zeros(4) \o Concat(sections)

TextName == <<95, 95, 84, 69, 88, 84>>
LowerTextName == <<95, 95, 116, 101, 120, 116>>

\* A file that starts with a Mach-O header and the given load commands and
\* holds len bytes; the snapshot section, when named, lies at [4096, 4096+64).
MachOFile(magic, commands, len) ==
    PlainFile(MachHeader64(magic, Len(commands), Len(Concat(commands)))
                \o Concat(commands), len)

TextSegment ==
    SegmentCommand64(LC_SEGMENT_64, TextName,
        <<Section64(LowerTextName, TextName, 128, 1024)>>)

SnapshotSegment ==
    SegmentCommand64(LC_SEGMENT_64, kMachOAppSnapshotSegmentName,
        <<Section64(LowerTextName, kMachOAppSnapshotSegmentName, 16, 2048),
          Section64(kMachOAppSnapshotSectionName,
                    kMachOAppSnapshotSegmentName, 64, 4096)>>)

WithSnapshot == <<LoadCommand(27, 24), TextSegment, SnapshotSegment>>
WithoutSnapshot == <<LoadCommand(27, 24), TextSegment>>

\* The load command given with another cmdsize declared, and padded to it.
WithCmdsize(command, cmdsize) ==
    SubSeq(command, 1, 4) \o Digits(cmdsize, 4)
        \o SubSeq(command, 9, Len(command))
        \o Zeros(cmdsize - Len(command))

\* struct section of a 32-bit file: sectname, segname, addr, size, offset,
\* and 24 bytes of align, reloff, nreloc, flags and reserved words.
Section32(sectname, segname, size, offset) ==
    Pad(sectname, 16) \o Pad(segname, 16) \o Zeros(4) \o Digits(size, 4)
        \o Digits(offset, 4) \o Zeros(24)

\* struct segment_command of a 32-bit file (LC_SEGMENT) followed by its
\* sections: cmd, cmdsize, segname, vmaddr, vmsize, fileoff, filesize,
\* maxprot, initprot, nsects, flags.
SegmentCommand32(segname, sections) ==
    Digits(LC_SEGMENT, 4) \o Digits(56 + 68 * Len(sections), 4)
        \o Pad(segname, 16) \o Zeros(24) \o Digits(Len(sections), 4)
        \o Zeros(4) \o Concat(sections)

\* A segment with two sections of the reserved names, at [4096, 4096+64) and
\* at [6144, 6144+32).
TwoSnapshots ==
    <<LoadCommand(27, 24),
      SegmentCommand64(LC_SEGMENT_64, kMachOAppSnapshotSegmentName,
          <<Section64(kMachOAppSnapshotSectionName,
                      kMachOAppSnapshotSegmentName, 64, 4096),
            Section64(kMachOAppSnapshotSectionName,
                      kMachOAppSnapshotSegmentName, 32, 6144)>>)>>

\* A section of the reserved names in a command of kind LC_SEGMENT that is
\* laid out like a segment_command_64, then one in an LC_SEGMENT_64 command.
InLegacySegment ==
    <<SegmentCommand64(LC_SEGMENT, kMachOAppSnapshotSegmentName,
          <<Section64(kMachOAppSnapshotSectionName,
                      kMachOAppSnapshotSegmentName, 64, 4096)>>),
      SegmentCommand64(LC_SEGMENT_64, kMachOAppSnapshotSegmentName,
          <<Section64(kMachOAppSnapshotSectionName,
                      kMachOAppSnapshotSegmentName, 32, 6144)>>)>>

\* The snapshot segment after an LC_SEGMENT_64 command that declares 8 bytes
\* more than its structures take.
AfterPaddedSegment ==
    <<WithCmdsize(TextSegment, Len(TextSegment) + 8), SnapshotSegment>>

\* The snapshot segment after an LC_SEGMENT command of a 32-bit file.
AfterSegment32 ==
    <<SegmentCommand32(TextName,
          <<Section32(LowerTextName, TextName, 128, 1024)>>),
      SnapshotSegment>>

OffsetWord == Digits(4096, kInt64Size)
ZeroWord == Digits(0, kInt64Size)
NegativeWord == <<0, 0, 0, 0, 0, 0, 0, 128>>
OtherWord == <<1, 2, 3, 4, 5, 6, 7, 8>>

ElfLead == <<127, 69, 76, 70>> \o Zeros(12)

MachOFiles ==
    {MachOFile(m, c, 8192) :
         m \in {MH_MAGIC_64, MH_CIGAM_64, MH_MAGIC, MH_CIGAM},
         c \in {WithSnapshot, WithoutSnapshot}}
        \cup {MachOFile(MH_MAGIC_64, c, 8192) :
                 c \in {TwoSnapshots, InLegacySegment, AfterPaddedSegment,
                        AfterSegment32}}

TrailerFiles ==
    {WithTrailer(PlainFile(ElfLead, 8192), o, m) :
         o \in {OffsetWord, ZeroWord, NegativeWord},
         m \in {appjit_magic_number, OtherWord}}

BlobFiles ==
    {BlobFile(<<0, 0, 100, 50>>), BlobFile(<<1, 0, 0, 0>>),
     BlobFile(<<0, 0, 0, 0>>),
     HeaderFile(<<0 - 1, 0, 0, 0>>, kAppSnapshotPageSize),
     HeaderFile(<<0, 0, 0 - 1, 16>>, 3 * kAppSnapshotPageSize),
     WithTrailer(BlobFile(<<0, 0, 100, 50>>), OffsetWord, appjit_magic_number)}

InitFiles ==
    {NoFile,
     [type |-> "pipe", len |-> 0, runs |-> {}, extents |-> {}],
     PlainFile(<<>>, 0), PlainFile(appjit_magic_number, 8),
     PlainFile(ElfLead, 8192),
     WithTrailer(MachOFile(MH_MAGIC_64, WithSnapshot, 8192), OffsetWord,
                 appjit_magic_number)}
        \cup MachOFiles \cup TrailerFiles \cup BlobFiles

-----------------------------------------------------------------------------
(* Inputs *)

\* The builds: DART_PRECOMPILED_RUNTIME, DART_TARGET_OS_MACOS and
\* DART_HOST_OS_FUCHSIA defined or not.
Builds ==
    {[precompiled |-> FALSE, macos |-> FALSE, fuchsia |-> FALSE],
     [precompiled |-> TRUE, macos |-> FALSE, fuchsia |-> FALSE],
     [precompiled |-> TRUE, macos |-> TRUE, fuchsia |-> FALSE],
     [precompiled |-> TRUE, macos |-> FALSE, fuchsia |-> TRUE]}

NoBuild == [precompiled |-> FALSE, macos |-> FALSE, fuchsia |-> FALSE]

\* The section sizes of the round trip.
SectionSizes ==
    {0, 1, kAppSnapshotPageSize - 1, kAppSnapshotPageSize,
     kAppSnapshotPageSize + 1}

\* The failures of the operating system injected into one call.  An action
\* keeps the calls in which every injected failure was met (hit = faults):
\* a failure of a call that was never made is no failure.
RECURSIVE SetsUpTo(_, _)
\* The subsets of sites of at most n elements.
SetsUpTo(sites, n) ==
    IF n = 0 THEN {{}}
    ELSE LET smaller == SetsUpTo(sites, n - 1)
         IN  smaller \cup {F \cup {x} : F \in smaller, x \in sites}

FaultSets(sites) == SetsUpTo(sites, MaxFaults)

BlobSites == {"blobs_read", "map1", "map2", "map3", "map4"}
ElfSites == {"elf_open", "elf_map"}
TrailerSites == {"ismacho_open", "trailer_open", "trailer_read"}
MachOSites == {"macho_open", "ismacho2_open"}

NoDl == [open |-> FALSE, symbols |-> <<0, 0, 0, 0>>]
DlAnswers ==
    {NoDl} \cup {[open |-> TRUE,
                  symbols |-> [k \in 1..4 |-> IF k \in S THEN 100 + k ELSE 0]] :
                     S \in SUBSET (1..4)}

NoElf == [ok |-> FALSE, ptrs |-> <<0, 0, 0, 0>>]
ElfAnswers ==
    {NoElf, [ok |-> TRUE, ptrs |-> <<71, 72, 73, 74>>],
     [ok |-> TRUE, ptrs |-> <<0, 0, 73, 74>>]}

Junk == {0, 1}

\* The answers of the ELF loader to choose from: one only when the call
\* does not reach the loader.
ElfChoices(r) == IF r.loads # <<>> THEN ElfAnswers ELSE {NoElf}

-----------------------------------------------------------------------------
(* State *)

NoWrite ==
    [exit |-> "none", sizes |-> <<0, 0, 0, 0>>, failed |-> {},
     placed |-> <<-1, -1, -1, -1>>]

\* No SetBuffers call was made on the handle.
NoBuffers ==
    [called |-> FALSE,
     before |-> <<NullBuffer, NullBuffer, NullBuffer, NullBuffer>>,
     after |-> <<NullBuffer, NullBuffer, NullBuffer, NullBuffer>>]

NoResult ==
    [op |-> "none", build |-> NoBuild, force |-> FALSE, uri |-> "path",
     position |-> 0, offset |-> ZeroWord, faults |-> {}, dl |-> NoDl,
     elf |-> NoElf, junk |-> 0, is |-> FALSE, out |-> Blank,
     buffers |-> NoBuffers]

Init ==
    /\ file \in InitFiles
    /\ written = NoWrite
    /\ result = NoResult

\* Nothing was read yet, and the file is one of InitFiles or one a
\* WriteAppSnapshot call returned from.
Fresh == result.op = "none" /\ written.exit \in {"none", "return"}

\* Snapshot::WriteAppSnapshot.  The call does not look at the file it
\* truncates: it is taken where the path names no file yet.  Only the
\* failures that a write met are failures of the call.
WriteAppSnapshot ==
    /\ result.op = "none" /\ written.exit = "none" /\ file = NoFile
    /\ \E faults \in FaultSets(WriterSites), debug \in BOOLEAN,
          sizes \in [1..4 -> SectionSizes] :
          LET w == WriteAppSnapshotCall(file, sizes, faults, debug)
          IN  /\ w.failed = faults
              /\ file' = w.f
              /\ written' = [exit |-> w.exit, sizes |-> sizes,
                             failed |-> w.failed, placed |-> w.placed]
    /\ UNCHANGED result

\* TryReadAppSnapshotBlobs(script_name, file) on the file, opened, at a file
\* position.
ReadBlobsFile ==
    /\ Fresh /\ file.type = "file"
    /\ \E position \in {0, 2 * kInt64Size}, faults \in FaultSets(BlobSites) :
          LET r == TryReadAppSnapshotBlobsFile(file, position, faults)
          IN  /\ r.hit = faults
              /\ result' = [NoResult EXCEPT
                                !.op = "TryReadAppSnapshotBlobsFile",
                                !.position = position, !.faults = faults,
                                !.out = r]
    /\ UNCHANGED <<file, written>>

\* TryReadAppSnapshotBlobs(script_name).
ReadBlobs ==
    /\ Fresh
    /\ \E faults \in FaultSets(BlobSites \cup {"blobs_open"}) :
          LET r == TryReadAppSnapshotBlobs(file, faults)
          IN  /\ r.hit = faults
              /\ result' = [NoResult EXCEPT
                                !.op = "TryReadAppSnapshotBlobs",
                                !.faults = faults, !.out = r]
    /\ UNCHANGED <<file, written>>

\* MappedAppSnapshot::SetBuffers on the handle a blob read returned, the
\* caller's four variables holding null or a value of the caller's.
ExposeBuffers ==
    /\ result.op \in {"TryReadAppSnapshotBlobs", "TryReadAppSnapshotBlobsFile"}
    /\ result.out.exit = "return" /\ result.out.ret.kind = "mapped"
    /\ ~result.buffers.called
    /\ \E buffers \in [1..4 -> {NullBuffer, CallersBuffer}] :
          result' = [result EXCEPT
                        !.buffers = [called |-> TRUE, before |-> buffers,
                                     after |-> SetBuffers(result.out.ret,
                                                          buffers)]]
    /\ UNCHANGED <<file, written>>

\* The probes below are tried on the files of InitFiles, which hold blob
\* containers as WriteAppSnapshot lays them out.
Probing == result.op = "none" /\ written.exit = "none"

Attempted(r, name) == \E i \in 1..Len(r.strategies) : r.strategies[i] = name

\* Snapshot::TryReadAppSnapshot.  The answers of dlopen and of the ELF loader
\* are chosen only in the calls that reach them.
Resolve ==
    /\ Probing
    /\ \E build \in Builds, force \in BOOLEAN,
          uri \in {"path", "uri", "bad_uri"},
          faults \in FaultSets(BlobSites \cup {"blobs_open"} \cup ElfSites) :
          LET r0 == TryReadAppSnapshot(file, uri, force, build, faults,
                                       NoDl, NoElf)
          IN  \E dl \in (IF Attempted(r0, "dylib") THEN DlAnswers ELSE {NoDl}) :
              LET r1 == TryReadAppSnapshot(file, uri, force, build, faults,
                                           dl, NoElf)
              IN  \E elf \in ElfChoices(r1) :
                  LET r == TryReadAppSnapshot(file, uri, force, build,
                                              faults, dl, elf)
                  IN  /\ r.hit = faults
                      /\ result' = [NoResult EXCEPT
                                       !.op = "TryReadAppSnapshot",
                                       !.build = build, !.force = force,
                                       !.uri = uri, !.faults = faults,
                                       !.dl = dl, !.elf = elf, !.out = r]
    /\ UNCHANGED <<file, written>>

\* TryReadAppSnapshotDynamicLibrary(script_name), of the precompiled runtime.
ReadDynamicLibrary ==
    /\ Probing
    /\ \E build \in {b \in Builds : b.precompiled}, dl \in DlAnswers :
          result' = [NoResult EXCEPT
                        !.op = "TryReadAppSnapshotDynamicLibrary",
                        !.build = build, !.dl = dl,
                        !.out = TryReadAppSnapshotDynamicLibrary(dl)]
    /\ UNCHANGED <<file, written>>

\* TryReadAppSnapshotElf(script_name, file_offset, force), of the precompiled
\* runtime.
ReadElf ==
    /\ Probing
    /\ \E build \in {b \in Builds : b.precompiled}, force \in BOOLEAN,
          offset \in {ZeroWord, OffsetWord}, faults \in FaultSets(ElfSites) :
          LET r0 == TryReadAppSnapshotElf(file, offset, force, build, faults,
                                          NoElf)
          IN  \E elf \in ElfChoices(r0) :
              LET r == TryReadAppSnapshotElf(file, offset, force, build,
                                             faults, elf)
              IN  /\ r.hit = faults
                  /\ result' = [NoResult EXCEPT
                                   !.op = "TryReadAppSnapshotElf",
                                   !.build = build, !.force = force,
                                   !.offset = offset, !.faults = faults,
                                   !.elf = elf, !.out = r]
    /\ UNCHANGED <<file, written>>

\* Snapshot::TryReadAppendedAppSnapshotElf(container_path), of the
\* precompiled runtime.
ReadAppended ==
    /\ Probing
    /\ \E build \in {b \in Builds : b.precompiled},
          faults \in FaultSets(TrailerSites \cup ElfSites \cup MachOSites) :
          LET r0 == TryReadAppendedAppSnapshotElf(file, build, faults,
                                                  NoElf, 0)
          IN  \E elf \in ElfChoices(r0),
                 junk \in (IF r0.walk # <<>> THEN Junk ELSE {0}) :
              LET r == TryReadAppendedAppSnapshotElf(file, build, faults,
                                                     elf, junk)
              IN  /\ r.hit = faults
                  /\ result' = [NoResult EXCEPT
                                   !.op = "TryReadAppendedAppSnapshotElf",
                                   !.build = build, !.faults = faults,
                                   !.elf = elf, !.junk = junk, !.out = r]
    /\ UNCHANGED <<file, written>>

\* Snapshot::TryReadAppendedAppSnapshotElfFromMachO(container_path), of the
\* precompiled runtime on macOS.
ReadMachO ==
    /\ Probing
    /\ \E build \in {b \in Builds : b.precompiled /\ b.macos},
          faults \in FaultSets(MachOSites), junk \in Junk :
          LET r0 == TryReadAppendedAppSnapshotElfFromMachO(file, faults,
                                                           NoElf, junk)
          IN  \E elf \in ElfChoices(r0) :
              LET r == TryReadAppendedAppSnapshotElfFromMachO(file, faults,
                                                              elf, junk)
              IN  /\ r.hit = faults
                  /\ junk = 0 \/ r.walk # <<>>
                  /\ result' = [NoResult EXCEPT
                                   !.op = "TryReadAppendedAppSnapshotElfFromMachO",
                                   !.build = build, !.faults = faults,
                                   !.elf = elf, !.junk = junk, !.out = r]
    /\ UNCHANGED <<file, written>>

\* Snapshot::IsMachOFormattedBinary(filename), on macOS.
IsMachO ==
    /\ Probing
    /\ \E build \in {b \in Builds : b.macos},
          faults \in FaultSets({"ismacho_open"}) :
          LET r == IsMachOFormattedBinaryCall(file, "ismacho_open", faults)
          IN  /\ r.hit = faults
              /\ result' = [NoResult EXCEPT
                               !.op = "IsMachOFormattedBinary",
                               !.build = build, !.faults = faults,
                               !.is = IsMachOFormattedBinary(
                                          file, "ismacho_open", faults),
                               !.out = r]
    /\ UNCHANGED <<file, written>>

Next ==
    \/ WriteAppSnapshot
    \/ ReadBlobsFile
    \/ ReadBlobs
    \/ ExposeBuffers
    \/ Resolve
    \/ ReadDynamicLibrary
    \/ ReadElf
    \/ ReadAppended
    \/ ReadMachO
    \/ IsMachO

Spec == Init /\ [][Next]_vars

-----------------------------------------------------------------------------
(* Properties *)

\* The last call was one of the two entries of the blob reader.
BlobRead ==
    result.op \in {"TryReadAppSnapshotBlobs", "TryReadAppSnapshotBlobsFile"}

\* The bytes of f from m.off on, m.len of them, are the bytes of section
\* buffer k and nothing else: one extent of that buffer covers exactly the
\* range, and no written bytes and no other buffer lie over it.
HoldsSection(f, m, k) ==
    /\ [off |-> m.off, len |-> m.len, id |-> k] \in f.extents
    /\ \A e \in f.extents :
          e.id # k => (e.off + e.len <= m.off \/ m.off + m.len <= e.off)
    /\ \A r \in f.runs :
          r.off + Len(r.bytes) <= m.off \/ m.off + m.len <= r.off
    /\ ByteAt(f, m.off) = Fill(k)
    /\ ByteAt(f, m.off + m.len - 1) = Fill(k)

\* A container that WriteAppSnapshot wrote, every write succeeding, was read
\* from its start by the blob reader, every call of the operating system
\* succeeding.
RoundTripCase ==
    /\ written.exit = "return" /\ written.failed = {}
    /\ BlobRead /\ result.position = 0 /\ result.faults = {}

\* C1: reading back a container written with any four section sizes of
\* SectionSizes returns a handle in which every section of non-zero size is
\* mapped from exactly the file offset where the writer put its buffer, with
\* exactly its size, the file holding the buffer's bytes there, and every
\* section of size 0 has no mapping.
RoundTrip ==
    RoundTripCase =>
        /\ result.out.exit = "return"
        /\ result.out.ret.kind = "mapped"
        /\ \A k \in 1..4 :
              IF written.sizes[k] = 0
                  THEN result.out.ret.maps[k] = NoMap
                  ELSE /\ result.out.ret.maps[k].off = written.placed[k]
                       /\ result.out.ret.maps[k].len = written.sizes[k]
                       /\ HoldsSection(file, result.out.ret.maps[k], k)

\* A round trip with an empty section, a one-byte section and sections one
\* byte longer and one byte shorter than a page.
RoundTripWitness ==
    /\ RoundTripCase
    /\ written.sizes = <<1, 0, kAppSnapshotPageSize + 1,
                         kAppSnapshotPageSize - 1>>
    /\ result.out.ret.kind = "mapped"
    /\ result.out.ret.maps[2] = NoMap
    /\ result.out.ret.maps[4].len = kAppSnapshotPageSize - 1

\* The blob reader computed section positions from a header whose four
\* sizes are >= 0.
ValidHeaderCase ==
    /\ BlobRead
    /\ result.out.positions # <<>>
    /\ \A k \in 1..4 : result.out.sizes[k] >= 0

Aligned(x) == x % kAppSnapshotPageSize = 0

NonDecreasing(positions) ==
    \A k \in 1..3 : positions[k] <= positions[k + 1]

\* C2 as stated: the four computed offsets are non-decreasing and each one,
\* those of sections of size 0 included, is a multiple of 16384.
OffsetsAllAligned ==
    ValidHeaderCase =>
        /\ NonDecreasing(result.out.positions)
        /\ \A k \in 1..4 : Aligned(result.out.positions[k])

\* C2, amended: the four computed offsets are non-decreasing; the vm-data and
\* isolate-data offsets and the offset of every instructions section whose
\* size is not 0 are multiples of 16384; the offset of an instructions section
\* of size 0 is the end of the data section before it.
OffsetsAligned ==
    ValidHeaderCase =>
        /\ NonDecreasing(result.out.positions)
        /\ Aligned(result.out.positions[1])
        /\ Aligned(result.out.positions[3])
        /\ \A k \in {2, 4} :
              IF result.out.sizes[k] # 0
                  THEN Aligned(result.out.positions[k])
                  ELSE result.out.positions[k] =
                           result.out.positions[k - 1] + result.out.sizes[k - 1]

\* A header with a one-byte vm-data section and no vm-instructions section:
\* the vm-instructions offset is one past a page boundary.
OffsetsWitness ==
    /\ ValidHeaderCase
    /\ result.out.sizes[1] = 1 /\ result.out.sizes[2] = 0
    /\ result.out.sizes[4] = kAppSnapshotPageSize
    /\ ~Aligned(result.out.positions[2])
    /\ Aligned(result.out.positions[4])

\* The blob reader was given an open file: the entry that takes the file, or
\* the entry that takes the path once File::Open succeeded.
BlobReadOpened ==
    /\ BlobRead
    /\ result.op = "TryReadAppSnapshotBlobs" =>
           file.type # "none" /\ "blobs_open" \notin result.faults

\* Fewer than 40 bytes remain, the header cannot be read, or its first 8
\* bytes are not the magic constant.
NoHeader ==
    \/ file.len - result.position < kAppSnapshotHeaderSize
    \/ "blobs_read" \in result.faults
    \/ ReadBytes(file, result.position, kInt64Size) # appjit_magic_number

\* A null result, returned.
SoftMiss(r) == r.ret = NullHandle /\ r.exit = "return"

\* The File::Map calls in r.maps are those of the sections of non-zero size,
\* in order, up to the last call; all but the last succeeded.
MapsInOrder(r) ==
    /\ \A i \in 1..Len(r.maps) :
          /\ r.sizes[r.maps[i].sec] # 0
          /\ r.maps[i].len = r.sizes[r.maps[i].sec]
          /\ i < Len(r.maps) => r.maps[i].ok
          /\ i < Len(r.maps) => r.maps[i].sec < r.maps[i + 1].sec
    /\ \A k \in 1..4 :
          (r.sizes[k] # 0 /\ r.maps # <<>> /\ k < r.maps[Len(r.maps)].sec)
              => \E i \in 1..Len(r.maps) : r.maps[i].sec = k

\* C3: the blob reader returns null, without a File::Map call and without a
\* fatal exit, exactly when fewer than 40 bytes remain, the header cannot be
\* read or the magic differs; otherwise it either returns a handle, every
\* section of non-zero size mapped, or ends fatally at the first section of
\* non-zero size whose File::Map fails.
BlobReaderOutcome ==
    BlobReadOpened =>
        /\ SoftMiss(result.out) <=> NoHeader
        /\ SoftMiss(result.out) => result.out.maps = <<>>
        /\ ~NoHeader =>
              /\ MapsInOrder(result.out)
              /\ \/ /\ result.out.exit = "return"
                    /\ result.out.ret.kind = "mapped"
                    /\ \A i \in 1..Len(result.out.maps) : result.out.maps[i].ok
                    /\ \A k \in 1..4 :
                          result.out.sizes[k] # 0 =>
                              \E i \in 1..Len(result.out.maps) :
                                  result.out.maps[i].sec = k
                 \/ /\ result.out.exit = "fatal"
                    /\ result.out.maps # <<>>
                    /\ ~result.out.maps[Len(result.out.maps)].ok

\* The magic matches, the first section of non-zero size is mapped and the
\* File::Map of a later one fails: the reader ends fatally.
BlobReaderOutcomeWitness ==
    /\ BlobReadOpened /\ ~NoHeader
    /\ result.out.exit = "fatal"
    /\ Len(result.out.maps) = 2
    /\ result.out.maps[1].ok /\ ~result.out.maps[2].ok

\* Word i (0: the offset, 1: the magic) of the 16-byte trailer of f.
TrailerWord(f, i) ==
    ReadBytes(f, f.len - 2 * kInt64Size + i * kInt64Size, kInt64Size)

\* The leading bytes of f are one of the Mach-O magic numbers.
MachOFormatted(f) ==
    /\ f.len >= 4
    /\ ReadBytes(f, 0, 4) \in {MH_MAGIC_64, MH_CIGAM_64, MH_MAGIC, MH_CIGAM}

\* TryReadAppendedAppSnapshotElf was called on a file that holds a trailer
\* and is not Mach-O formatted (the format is looked at on macOS only).
TrailerSearchCase ==
    /\ result.op = "TryReadAppendedAppSnapshotElf"
    /\ file.len >= 2 * kInt64Size
    /\ ~(result.build.macos /\ MachOFormatted(file))

\* C4: in the appended-trailer search a trailer whose offset word is 0, or
\* whose magic word is not the magic constant, is absent: the result is null
\* and the ELF loader is not called, whatever the other word holds.
TrailerAbsent ==
    (/\ TrailerSearchCase
     /\ \/ TrailerWord(file, 0) = Digits(0, kInt64Size)
        \/ TrailerWord(file, 1) # appjit_magic_number)
        => SoftMiss(result.out) /\ result.out.loads = <<>>

\* The trailer carries the magic constant and the offset 0; the file was
\* opened and the trailer read.
TrailerAbsentWitness ==
    /\ TrailerSearchCase
    /\ TrailerWord(file, 0) = Digits(0, kInt64Size)
    /\ TrailerWord(file, 1) = appjit_magic_number
    /\ result.faults = {}
    /\ result.out.opened = 1
    /\ SoftMiss(result.out)

\* TryReadAppSnapshot was called with a path, or with a URI that decodes to
\* one.
ResolverCase == result.op = "TryReadAppSnapshot" /\ result.uri # "bad_uri"

\* The strategies of a build in their order: the blob reader; in the
\* precompiled runtime also the dynamic library, unless loading from memory
\* is forced, and the executable-format loading.
StrategyOrder(build, force) ==
    <<"blobs">>
        \o (IF build.precompiled /\ ~force THEN <<"dylib">> ELSE <<>>)
        \o (IF build.precompiled THEN <<"elf">> ELSE <<>>)

IsPrefix(s, t) == Len(s) <= Len(t) /\ SubSeq(t, 1, Len(s)) = s

\* The kind of handle a strategy returns.
HandleOf(name) ==
    CASE name = "blobs" -> "mapped"
      [] name = "dylib" -> "dylib"
      [] name = "elf" -> "elf"

\* The file starts with a blob header and ends with a trailer that carries
\* the magic constant and an offset other than 0.
BlobWithTrailer(f) ==
    /\ f.len >= kAppSnapshotHeaderSize + 2 * kInt64Size
    /\ ReadBytes(f, 0, kInt64Size) = appjit_magic_number
    /\ TrailerWord(f, 1) = appjit_magic_number
    /\ TrailerWord(f, 0) # Digits(0, kInt64Size)

\* C5: on a path that is no regular file the resolver attempts nothing and
\* returns null; otherwise it attempts the strategies in their order, stops
\* at the first that returns a handle and returns that handle, every strategy
\* before it having returned null, and returns null only after every strategy
\* returned null.  A blob container that also carries a trailer resolves to
\* the blob-container handle.
ProbeSequence ==
    ResolverCase =>
        /\ file.type # "file" =>
              result.out.strategies = <<>> /\ SoftMiss(result.out)
        /\ file.type = "file" =>
              /\ result.out.strategies # <<>>
              /\ IsPrefix(result.out.strategies,
                          StrategyOrder(result.build, result.force))
              /\ result.out.ret # NullHandle =>
                    result.out.ret.kind =
                        HandleOf(result.out.strategies[
                                     Len(result.out.strategies)])
              /\ Len(result.out.strategies) > 1 =>
                    SoftMiss(TryReadAppSnapshotBlobs(file, result.faults))
              /\ (Attempted(result.out, "dylib")
                    /\ Attempted(result.out, "elf")) =>
                    SoftMiss(TryReadAppSnapshotDynamicLibrary(result.dl))
              /\ SoftMiss(result.out) =>
                    result.out.strategies =
                        StrategyOrder(result.build, result.force)
              /\ (BlobWithTrailer(file) /\ result.out.exit = "return"
                    /\ result.faults = {}) =>
                    /\ result.out.ret.kind = "mapped"
                    /\ result.out.strategies = <<"blobs">>

\* The file is a blob container with a trailer: the precompiled runtime
\* returns the blob-container handle, the blob reader alone attempted.
ProbeSequenceWitness ==
    /\ ResolverCase /\ BlobWithTrailer(file)
    /\ result.build.precompiled /\ ~result.force
    /\ result.out.ret.kind = "mapped"
    /\ result.out.strategies = <<"blobs">>

DylibCase == result.op = "TryReadAppSnapshotDynamicLibrary"

\* C6: the dynamic-library strategy returns null when the library does not
\* open; when it opens the result is never null: the strategy ends fatally
\* when the isolate-data or the isolate-instructions symbol does not resolve,
\* and otherwise returns a handle whose four pointers are the four resolved
\* addresses, null for a vm symbol that does not resolve.
DylibOutcome ==
    DylibCase =>
        /\ ~result.dl.open => SoftMiss(result.out)
        /\ result.dl.open =>
              /\ ~SoftMiss(result.out)
              /\ (result.dl.symbols[3] = 0 \/ result.dl.symbols[4] = 0) =>
                    result.out.exit = "fatal" /\ result.out.diags # <<>>
              /\ (result.dl.symbols[3] # 0 /\ result.dl.symbols[4] # 0) =>
                    /\ result.out.exit = "return"
                    /\ result.out.ret.kind = "dylib"
                    /\ result.out.ret.ptrs = result.dl.symbols

\* Both isolate symbols resolve and neither vm symbol does.
DylibOutcomeWitness ==
    /\ DylibCase /\ result.dl.open
    /\ result.dl.symbols[1] = 0 /\ result.dl.symbols[2] = 0
    /\ result.out.ret.kind = "dylib"
    /\ result.out.ret.ptrs[1] = 0 /\ result.out.ret.ptrs[2] = 0
    /\ result.out.ret.ptrs[3] # 0 /\ result.out.ret.ptrs[4] # 0

\* C7 as stated: when any write of WriteAppSnapshot fails (the magic, one of
\* the four size words, or the bytes of a section), the call does not return
\* to its caller.
WriteFailureIsFatal ==
    written.failed # {} => written.exit # "return"

\* The write of the magic or of a size word failed, and the call returned.
HeaderWriteFailureReturns ==
    /\ written.failed # {}
    /\ written.failed \subseteq {"magic", "size1", "size2", "size3", "size4"}
    /\ written.exit = "return"

\* The last call was one of the read strategies.
ReadStrategy ==
    result.op \in {"TryReadAppSnapshotBlobs", "TryReadAppSnapshotBlobsFile",
                   "TryReadAppSnapshotElf", "TryReadAppendedAppSnapshotElf",
                   "TryReadAppendedAppSnapshotElfFromMachO",
                   "IsMachOFormattedBinary"}

\* C8 as stated: whenever a read strategy returns, with a handle or with
\* null, every file it opened was released and every mapping it created that
\* the returned handle does not own was unmapped.
ResourcesScoped ==
    (ReadStrategy /\ result.out.exit = "return") =>
        /\ result.out.released = result.out.opened
        /\ result.out.unmapped = result.out.mapped

\* TryReadAppSnapshotElf, loading from memory, opened the file, File::Map
\* failed, and the call returned null with the file not released.
ElfMapFailureLeaksFile ==
    /\ result.op = "TryReadAppSnapshotElf"
    /\ result.force
    /\ SoftMiss(result.out)
    /\ result.out.opened = 1 /\ result.out.released = 0

\* The Mach-O search ran on a Mach-O formatted file it opened: called
\* directly, or from TryReadAppendedAppSnapshotElf on macOS.
MachOSearchCase ==
    /\ MachOFormatted(file)
    /\ "macho_open" \notin result.faults
    /\ \/ result.op = "TryReadAppendedAppSnapshotElfFromMachO"
       \/ /\ result.op = "TryReadAppendedAppSnapshotElf"
          /\ result.build.macos
          /\ "ismacho_open" \notin result.faults

\* Some bytes of f are a section_64 with the reserved section and segment
\* names.
HoldsSnapshotSection(f) ==
    \E r \in f.runs :
        \E i \in 0..(Len(r.bytes) - SizeofSection64) :
            /\ StrEq(r.bytes, i, kMachOAppSnapshotSectionName)
            /\ StrEq(r.bytes, i + 16, kMachOAppSnapshotSegmentName)

\* C9: the Mach-O search rejects a file whose magic is a 32-bit or a
\* byte-swapped one (MH_MAGIC, MH_CIGAM, MH_CIGAM_64): it returns null after a
\* diagnostic, reads no load command and no section and does not call the ELF
\* loader, even when the file holds a section with the reserved names.
MachORejects ==
    (/\ MachOSearchCase
     /\ ReadBytes(file, 0, 4) \in {MH_MAGIC, MH_CIGAM, MH_CIGAM_64})
        => /\ SoftMiss(result.out)
           /\ result.out.diags # <<>>
           /\ result.out.walk = <<>>
           /\ result.out.loads = <<>>

\* A byte-swapped 64-bit file that holds the reserved section is rejected.
MachORejectsWitness ==
    /\ MachOSearchCase
    /\ ReadBytes(file, 0, 4) = MH_CIGAM_64
    /\ result.out.diags = <<"byte-swapped header">>
    /\ result.out.walk = <<>>
    /\ HoldsSnapshotSection(file)

\* The resolver reached its last step.
LastStepCase == ResolverCase /\ Attempted(result.out, "elf")

\* What of an outcome tells the searches apart: the calls of the ELF loader,
\* the Mach-O structures read, the diagnostics and the value returned.
Observed(r) ==
    [loads |-> r.loads, walk |-> r.walk, diags |-> r.diags, ret |-> r.ret]

\* C10 as stated: the last step of the resolver is the Mach-O search on a
\* file whose leading bytes are a Mach-O magic, and otherwise the
\* appended-trailer search, which calls the ELF loader only for a trailer
\* with the magic constant and an offset > 0, and then with that offset.
LastStepIsProbe ==
    (LastStepCase /\ result.faults = {}) =>
        Observed(result.out) =
            Observed(TryReadAppendedAppSnapshotElf(
                         file, result.build, {}, result.elf, 0))

\* C10, amended: the last step of the resolver gives the whole file to the
\* ELF loader at file offset 0, by its path, or as a mapping of the whole
\* file when loading from memory is forced or on Fuchsia; it reads no Mach-O
\* structure and no trailer, and returns the loader's handle, or null after a
\* diagnostic when the loader fails.
LastStepLoadsAtOffsetZero ==
    LastStepCase =>
        /\ result.out.walk = <<>>
        /\ (~result.force /\ ~result.build.fuchsia) =>
              result.out.loads =
                  <<LoadCall("path", "file", Digits(0, kInt64Size), 0,
                             file.len)>>
        /\ (result.force \/ result.build.fuchsia) =>
              result.out.loads =
                  IF result.faults \cap ElfSites = {} /\ file.len > 0
                      THEN <<LoadCall("memory", "map", Digits(0, kInt64Size),
                                      file.len, file.len)>>
                      ELSE <<>>
        /\ result.out.loads # <<>> =>
              IF result.elf.ok
                  THEN /\ result.out.ret.kind = "elf"
                       /\ result.out.ret.ptrs = result.elf.ptrs
                  ELSE /\ SoftMiss(result.out)
                       /\ result.out.diags = <<"Loading failed">>

\* The file ends with a trailer that carries the magic constant and the
\* offset 4096; the last step gives the loader the path and the offset 0.
LastStepWitness ==
    /\ LastStepCase
    /\ TrailerWord(file, 1) = appjit_magic_number
    /\ TrailerWord(file, 0) = Digits(4096, kInt64Size)
    /\ Len(result.out.loads) = 1
    /\ result.out.loads[1].mode = "path"
    /\ result.out.loads[1].offset = Digits(0, kInt64Size)
    /\ result.out.ret.kind = "elf"

\* SetBuffers was called on the handle a blob read returned.
SetBuffersCase == BlobRead /\ result.buffers.called

\* The address of the mapping the reader made for section k: the mapping
\* starts at the position computed for the section and has its size.
SectionAddress(k) ==
    address([off |-> result.out.positions[k], len |-> result.out.sizes[k],
             prot |-> MapType(k)])

\* C11 as stated: after SetBuffers on the handle of a successful blob read,
\* the output pointer of every section of size 0 is null and the output
\* pointer of every other section is the address of the section's mapping,
\* whatever the four pointers held before the call.
BuffersNullWhenAbsent ==
    SetBuffersCase =>
        \A k \in 1..4 :
            IF result.out.sizes[k] = 0
                THEN result.buffers.after[k] = NullBuffer
                ELSE result.buffers.after[k] = SectionAddress(k)

\* C11, amended: after SetBuffers on the handle of a successful blob read,
\* the output pointer of every section of size 0 holds what it held before
\* the call (null exactly when the caller passed null), and the output
\* pointer of every other section is the address of the section's mapping,
\* which is not null.
BuffersLeftWhenAbsent ==
    SetBuffersCase =>
        \A k \in 1..4 :
            IF result.out.sizes[k] = 0
                THEN result.buffers.after[k] = result.buffers.before[k]
                ELSE /\ result.buffers.after[k] = SectionAddress(k)
                     /\ result.buffers.after[k] # NullBuffer

\* The container has no vm sections; the caller's variables for them held
\* values of the caller's, the two for the isolate sections held null.
BuffersWitness ==
    /\ SetBuffersCase
    /\ result.out.sizes = <<0, 0, 100, 50>>
    /\ result.buffers.before =
          <<CallersBuffer, CallersBuffer, NullBuffer, NullBuffer>>
    /\ result.buffers.after[1] = CallersBuffer
    /\ result.buffers.after[3] = SectionAddress(3)

\* The 64-bit word given by its digits is negative as an int64_t: the high
\* bit of its most significant byte is set.
NegativeInt64(digits) == digits[kInt64Size] >= 128

\* C12: in the appended-trailer search a trailer that carries the magic
\* constant and an offset word that is negative as a signed 64-bit
\* little-endian integer (its high bit is set) is absent: the result is null
\* and the ELF loader is not called.
NegativeOffsetAbsent ==
    (/\ TrailerSearchCase
     /\ TrailerWord(file, 1) = appjit_magic_number
     /\ NegativeInt64(TrailerWord(file, 0)))
        => SoftMiss(result.out) /\ result.out.loads = <<>>

\* The trailer carries the magic constant and the offset word 0x80..00, and
\* the ELF loader was given the path with the file offset 2^63, whose handle
\* is returned.
NegativeOffsetReachesLoader ==
    /\ TrailerSearchCase
    /\ TrailerWord(file, 1) = appjit_magic_number
    /\ NegativeInt64(TrailerWord(file, 0))
    /\ result.out.loads =
          <<LoadCall("path", "file", TrailerWord(file, 0), 0, file.len)>>
    /\ result.out.loads[1].offset = <<0, 0, 0, 0, 0, 0, 0, 128>>
    /\ result.out.ret.kind = "elf"

\* The unsigned 64-bit file offset given by its digits is at most n, for an
\* n below 2^24.
AtMost(digits, n) ==
    /\ \A i \in 4..kInt64Size : digits[i] = 0
    /\ Unsigned(SubSeq(digits, 1, 3)) <= n

\* The last call handed the ELF loader a buffer inside the mapping of the
\* file (TryReadAppSnapshotElf in memory mode), at a file offset that lies
\* in the file.
MemoryModeCase ==
    /\ Len(result.out.loads) = 1
    /\ result.out.loads[1].mode = "memory"
    /\ result.out.loads[1].from = "map"
    /\ AtMost(result.out.loads[1].offset, file.len)

\* C13: in memory mode of TryReadAppSnapshotElf the buffer given to the ELF
\* loader starts file_offset bytes into the mapping of the whole file and
\* ends inside it: file_offset + length <= file length, for every
\* file_offset from 0 to the file length.
MemoryRangeInsideMapping ==
    MemoryModeCase =>
        /\ result.out.loads[1].room = file.len
        /\ Unsigned(SubSeq(result.out.loads[1].offset, 1, 3))
              + result.out.loads[1].length <= file.len

\* On Fuchsia the appended-trailer search found the offset 4096 in the
\* trailer of a file of 8208 bytes, and the loader was given the buffer that
\* starts 4096 bytes into the mapping with the length 8208.
MemoryRangeOverruns ==
    /\ MemoryModeCase
    /\ result.op = "TryReadAppendedAppSnapshotElf"
    /\ result.build.fuchsia
    /\ file.len = 8192 + 2 * kInt64Size
    /\ result.out.loads[1] =
          LoadCall("memory", "map", Digits(4096, kInt64Size), file.len,
                   file.len)

\* The Mach-O search walked the load commands of a file with a 64-bit
\* header that is not byte-swapped, every File::Open succeeding.
MachOWalkCase ==
    /\ MachOSearchCase
    /\ ReadBytes(file, 0, 4) = MH_MAGIC_64
    /\ result.faults = {}
    /\ result.out.exit = "return"

\* The unsigned integer of n bytes at byte pos of file f.
FileField(f, pos, n) == Unsigned(ReadBytes(f, pos, n))

\* Where the load command after the one at pos starts, going by the cmdsize
\* the command declares.
NextByCmdsize(f, pos) == pos + FileField(f, pos + 4, 4)

\* Where the walk reads the load command after the one at pos: past the
\* segment_command_64 and the nsects section_64 read for a command of a
\* segment kind, at the declared cmdsize for any other.
NextByStructures(f, pos) ==
    IF FileField(f, pos, 4) \in {LC_SEGMENT, LC_SEGMENT_64}
        THEN pos + SizeofSegmentCommand64
                 + SizeofSection64 * FileField(f, pos + 64, 4)
        ELSE pos + FileField(f, pos + 4, 4)

RECURSIVE CommandStart(_, _)
\* The size of mach_header_64 plus the sum of the declared cmdsize of the
\* commands 0..i-1.
CommandStart(f, i) ==
    IF i = 0 THEN SizeofMachHeader64
    ELSE NextByCmdsize(f, CommandStart(f, i - 1))

RECURSIVE WalkStart(_, _)
\* The size of mach_header_64 plus, for each of the commands 0..i-1 as the
\* walk meets them, the size of the structures read for a segment and the
\* declared cmdsize for any other.
WalkStart(f, i) ==
    IF i = 0 THEN SizeofMachHeader64
    ELSE NextByStructures(f, WalkStart(f, i - 1))

\* Section j of the command that starts at pos, read as a section_64.
SectionOf(f, i, j, pos) ==
    [i |-> i, j |-> j, kind |-> FileField(f, pos, 4),
     pos |-> pos + SizeofSegmentCommand64 + SizeofSection64 * j,
     named |-> HasSnapshotNames(
                   0, ReadBytes(f, pos + SizeofSegmentCommand64
                                     + SizeofSection64 * j, SizeofSection64)),
     offset |-> FileField(f, pos + SizeofSegmentCommand64
                                 + SizeofSection64 * j + 48, 4),
     size |-> FileField(f, pos + SizeofSegmentCommand64
                               + SizeofSection64 * j + 40, 8)]

\* The sections of command i of f, which starts at pos: none for a command
\* that is no segment.
SectionsAt(f, i, pos) ==
    IF FileField(f, pos, 4) \in {LC_SEGMENT, LC_SEGMENT_64}
        THEN {SectionOf(f, i, j, pos) :
                  j \in 0..(FileField(f, pos + 64, 4) - 1)}
        ELSE {}

\* The sections of the segment commands of f, going by the declared cmdsize.
SectionsByCmdsize(f) ==
    UNION {SectionsAt(f, i, CommandStart(f, i)) :
               i \in 0..(FileField(f, 16, 4) - 1)}

\* The sections of the segment commands of f as the walk meets them.
SectionsOfWalk(f) ==
    UNION {SectionsAt(f, i, WalkStart(f, i)) :
               i \in 0..(FileField(f, 16, 4) - 1)}

\* The sections of `among` no other section of `among` comes before in file
\* order (by command, then by section): the first one, or none.
First(among) ==
    {s \in among :
        \A t \in among : ~(t.i < s.i \/ (t.i = s.i /\ t.j < s.j))}

\* The walk of the last call stopped at section s; the loader was called
\* once with a buffer of s.size bytes read from the file at s.offset, and the
\* call returned the handle built from the loader's answer, or null.
Decided(r, s, elf) ==
    /\ r.walk # <<>>
    /\ r.walk[Len(r.walk)] = [what |-> "section", i |-> s.i, pos |-> s.pos]
    /\ r.loads = <<LoadCall("memory", "copy", Digits(s.offset, kInt64Size),
                            s.size, s.size)>>
    /\ IF elf.ok
           THEN r.ret = ElfAppSnapshot(elf.ptrs)
           ELSE SoftMiss(r) /\ r.diags = <<"Loading failed">>

\* The last call did what the first section of `among` decides.
DecidedByFirst(among) ==
    IF among = {} THEN SoftMiss(result.out) /\ result.out.loads = <<>>
    ELSE \A s \in First(among) : Decided(result.out, s, result.elf)

\* C14 as stated: over a 64-bit header that is not byte-swapped, the first
\* section in file order (load commands in order, the sections of each
\* command of a segment kind in order) whose segment and section names are
\* the reserved pair decides the result: the loader is called once with the
\* section's bytes and size, its handle or null is returned, and no later
\* section is read; with no such section the result is null and the loader
\* is not called.
FirstNamedSectionDecides ==
    MachOWalkCase =>
        DecidedByFirst({s \in SectionsByCmdsize(file) : s.named})

\* C14, amended: the sections are those the walk reads, a command of a
\* segment kind taken to end after its segment_command_64 and nsects
\* section_64 whatever cmdsize it declares, and only the sections of
\* LC_SEGMENT_64 commands count: the first of them with the reserved names
\* decides the result as above, and with none the result is null and the
\* loader is not called.
FirstSegment64SectionDecides ==
    MachOWalkCase =>
        DecidedByFirst({s \in SectionsOfWalk(file) :
                           s.named /\ s.kind = LC_SEGMENT_64})

\* The file holds a section of the reserved names in an LC_SEGMENT command
\* and a later one in an LC_SEGMENT_64 command; the later one, at 6144, was
\* given to the loader.
FirstSegment64Witness ==
    /\ MachOWalkCase
    /\ \E s \in SectionsOfWalk(file) :
          s.named /\ s.kind = LC_SEGMENT /\ s.i = 0
    /\ result.out.loads =
          <<LoadCall("memory", "copy", Digits(6144, kInt64Size), 32, 32)>>
    /\ result.out.ret.kind = "elf"

\* An entry of the walk with what = "load_command" is the read of a load
\* command: the start of an iteration of the loop over the load commands.

====
